---- MODULE Spec2Model ----
(***************************************************************************)
(* Model of fieldsclass.py: the Field str subclass (Field.__new__), the    *)
(* FieldPlaceholder dataclass with its factory _field, and the fieldsclass *)
(* decorator that subclasses a declaration class and binds a Field under   *)
(* every name the declaration binds to a placeholder.                      *)
(*                                                                         *)
(* Python objects live in heaps indexed by identity: classes, placeholders,*)
(* fields (Field instances), sets (the set objects bound to .values) and   *)
(* vals (the instance dictionaries of Field.Val objects).  A str item is a *)
(* TLA+ string; an item written "#7" stands for the integer 7, i.e. an     *)
(* item that is not a str.                                                 *)
(***************************************************************************)
EXTENDS Integers, Sequences, FiniteSets, TLC

VARIABLES classes, placeholders, fields, sets, vals, updates, last

vars == <<classes, placeholders, fields, sets, vals, updates, last>>

(* ------------------------------ bounds --------------------------------- *)
MaxLen == 3
MaxPlaceholders == 2
MaxClasses == 4
\* every declaration leaves room for its decorated class
MaxDecls == MaxClasses \div 2
MaxUpdates == 1
MaxCalls == 1

(* ------------------------------ inputs --------------------------------- *)
Names == {"Status", "Name"}
NameOrder == <<"Status", "Name">>
Labels == {"a", "b"}
NonText == {"#7"}

RECURSIVE SeqsUpTo(_, _)
SeqsUpTo(S, n) ==
    IF n = 0 THEN {<<>>}
    ELSE LET shorter == SeqsUpTo(S, n - 1)
         IN shorter \cup {Append(s, x) : s \in {t \in shorter : Len(t) = n - 1}, x \in S}

NoneValue == [kind |-> "None", items |-> <<>>, n |-> 0]
ListValue(items) == [kind |-> "list", items |-> items, n |-> 0]
StrValue(chars) == [kind |-> "str", items |-> chars, n |-> 0]
IntValue(n) == [kind |-> "int", items |-> <<>>, n |-> n]

\* values a direct Field(...) call is tried with
CallValues ==
    {NoneValue} \cup {ListValue(s) : s \in SeqsUpTo(Labels \cup NonText, MaxLen)}
                \cup {StrValue(s) : s \in SeqsUpTo(Labels, MaxLen)}
                \cup {IntValue(0), IntValue(5)}

\* values a placeholder is declared with
DeclValues ==
    {NoneValue, ListValue(<<>>), ListValue(<<"a", "a">>), StrValue(<<"a", "b">>),
     IntValue(5)}

(* --------------------------- Field.__new__ ----------------------------- *)
\* mutant: `if values is not None:`
TruthyNotNone(values) == values.kind # "None"

\* `if values:` -- Python truthiness of the argument
Truthy(values) ==
    CASE values.kind = "None" -> FALSE
      [] values.kind = "int" -> values.n # 0
      [] OTHER -> Len(values.items) > 0

\* iter(values) succeeds for a list and for a str (its characters)
Iterable(values) == values.kind \in {"list", "str"}

\* set(values)
PySet(values) == {values.items[i] : i \in 1..Len(values.items)}

IsText(item) == item \notin NonText

EmptyDict == <<>>

\* mutant: the loop skips the first item
RECURSIVE SetAttrsSkipFirst(_, _, _)
SetAttrsSkipFirst(dict, items, i) ==
    LET j == IF i = 1 THEN 2 ELSE i
    IN IF j > Len(items) THEN [err |-> "none", dict |-> dict]
       ELSE IF ~IsText(items[j]) THEN [err |-> "TypeError", dict |-> dict]
       ELSE SetAttrsSkipFirst((items[j] :> items[j]) @@ dict, items, j + 1)

\* for val in values: setattr(ret.val, val, val)
RECURSIVE SetAttrs(_, _, _)
SetAttrs(dict, items, i) ==
    IF i > Len(items) THEN [err |-> "none", dict |-> dict]
    ELSE IF ~IsText(items[i]) THEN [err |-> "TypeError", dict |-> dict]
    ELSE SetAttrs((items[i] :> items[i]) @@ dict, items, i + 1)

\* mutant: super().__new__(cls), the empty string
StrNewEmpty(obj) == ""

\* super().__new__(cls, obj): the str content of the new object
StrNew(obj) == obj

Raised(obj) ==
    [err |-> "TypeError", str |-> obj, has |-> FALSE, values |-> {}, val |-> EmptyDict]

Field_new(obj, values) ==
    IF ~Truthy(values)
    THEN [err |-> "none", str |-> StrNew(obj), has |-> FALSE, values |-> {},
          val |-> EmptyDict]
    ELSE IF ~Iterable(values) THEN Raised(obj)
    ELSE LET loop == SetAttrs(EmptyDict, values.items, 1)
         IN IF loop.err # "none" THEN Raised(obj)
            ELSE [err |-> "none", str |-> StrNew(obj), has |-> TRUE,
                  values |-> PySet(values), val |-> loop.dict]

\* mutant: ret.val = Field.Val, the class itself, shared by every field
SharedVal(heap) == 1

\* Field.Val(): a new accessor object
NewVal(heap) == Len(heap) + 1

\* set(...): a new set object
NewSet(heap) == Len(heap) + 1

\* the Field instance and the objects bound in its __dict__
Instance(r, setHeap, valHeap) ==
    [str |-> r.str, has |-> r.has,
     values |-> IF r.has THEN NewSet(setHeap) ELSE 0,
     val |-> IF r.has THEN NewVal(valHeap) ELSE 0]

(* ------------------------------- state --------------------------------- *)
NoCall == [op |-> "none", target |-> 0, name |-> "", arg |-> NoneValue,
           status |-> "ok", ret |-> 0]

Init ==
    /\ classes = <<>>
    /\ placeholders = <<>>
    /\ fields = <<>>
    /\ sets = <<>>
    /\ vals = <<>>
    /\ updates = 0
    /\ last = NoCall

\* Field(obj, values=values) called directly, as in the class doctest
FieldCall(obj, values) ==
    /\ Len(fields) < MaxCalls
    /\ LET r == Field_new(obj, values)
       IN IF r.err # "none"
          THEN /\ UNCHANGED <<fields, sets, vals>>
               /\ last' = [op |-> "Field", target |-> 0, name |-> obj,
                           arg |-> values, status |-> r.err, ret |-> 0]
          ELSE /\ fields' = Append(fields, Instance(r, sets, vals))
               /\ sets' = IF r.has THEN Append(sets, r.values) ELSE sets
               /\ vals' = IF r.has THEN Append(vals, r.val) ELSE vals
               /\ last' = [op |-> "Field", target |-> 0, name |-> obj,
                           arg |-> values, status |-> "ok",
                           ret |-> Len(fields) + 1]
    /\ UNCHANGED <<classes, placeholders, updates>>

NextNew == \E obj \in Names, values \in CallValues : FieldCall(obj, values)

SpecNew == Init /\ [][NextNew]_vars

(* ------------------------ placeholders, classes ------------------------ *)
Absent == [kind |-> "absent", id |-> 0]
Placeholder(p) == [kind |-> "placeholder", id |-> p]
Plain(o) == [kind |-> "plain", id |-> o]
FieldRef(f) == [kind |-> "field", id |-> f]

Call(op, target, status, ret) ==
    [op |-> op, target |-> target, name |-> "", arg |-> NoneValue,
     status |-> status, ret |-> ret]

\* fieldsclass.field(values=...): a new FieldPlaceholder
_field(values) ==
    /\ Len(placeholders) < MaxPlaceholders
    /\ placeholders' = Append(placeholders, [values |-> values])
    /\ last' = Call("field", 0, "ok", Len(placeholders) + 1)
    /\ UNCHANGED <<classes, fields, sets, vals, updates>>

\* what a class body may bind a name to
Bindables == {Absent, Plain(1)} \cup {Placeholder(p) : p \in 1..Len(placeholders)}

\* what a name may be rebound to later
Rebindables == {Plain(2)} \cup {Placeholder(p) : p \in 1..Len(placeholders)}

Decls == {c \in 1..Len(classes) : classes[c].base = 0}
Schemas == {c \in 1..Len(classes) : classes[c].base # 0}

\* class F: <name> = <member> ...   (the class statement being decorated)
ClassStatement(body) ==
    /\ Len(classes) < MaxClasses
    /\ Cardinality(Decls) < MaxDecls
    /\ classes' = Append(classes, [base |-> 0, dict |-> body])
    /\ last' = Call("class", 0, "ok", Len(classes) + 1)
    /\ UNCHANGED <<placeholders, fields, sets, vals, updates>>

\* attribute lookup on a class: its own __dict__, then its bases
RECURSIVE LookupIn(_, _, _)
LookupIn(cls, c, n) ==
    IF c = 0 THEN Absent
    ELSE IF cls[c].dict[n].kind # "absent" THEN cls[c].dict[n]
    ELSE LookupIn(cls, cls[c].base, n)

Lookup(c, n) == LookupIn(classes, c, n)

\* isinstance(v, FieldPlaceholder)
IsPlaceholder(v) == v.kind = "placeholder"

\* the classes attribute lookup on c goes through: c, then its bases
RECURSIVE Mro(_)
Mro(c) == IF c = 0 THEN <<>> ELSE <<c>> \o Mro(classes[c].base)

\* mutant: the loop walks clazz.__mro__ and takes the placeholders of every base
MroDict(clazz) ==
    [n \in Names |->
        LET found == {i \in 1..Len(Mro(clazz)) : IsPlaceholder(classes[Mro(clazz)[i]].dict[n])}
        IN IF found = {} THEN classes[clazz].dict[n]
           ELSE classes[Mro(clazz)[CHOOSE i \in found : \A j \in found : i <= j]].dict[n]]

\* clazz.__dict__
ClassDict(clazz) == classes[clazz].dict

\* mutant: Field(k), the values of the placeholder are not passed on
NoValues(v) == NoneValue

\* v.values of a placeholder v
PlaceholderValues(v) == placeholders[v.id].values

\* mutant: class Decorated: pass, without the base
DecoratedNoBase(clazz) == 0

\* class Decorated(clazz): the base of the decorated class
DecoratedBase(clazz) == clazz

\* the loop of fieldsclass over clazz.__dict__.items(); st carries the heaps,
\* the __dict__ of Decorated and the exception raised, if any
RECURSIVE Materialize(_, _, _)
Materialize(clazz, i, st) ==
    IF i > Len(NameOrder) \/ st.err # "none" THEN st
    ELSE LET k == NameOrder[i]
             v == ClassDict(clazz)[k]
         IN IF ~IsPlaceholder(v) THEN Materialize(clazz, i + 1, st)
            ELSE LET r == Field_new(k, PlaceholderValues(v))
                     f == Len(st.fields) + 1
                 IN IF r.err # "none"
                    THEN [st EXCEPT !.err = r.err]
                    ELSE Materialize(clazz, i + 1,
                      [err |-> "none",
                       fields |-> Append(st.fields, Instance(r, st.sets, st.vals)),
                       sets |-> IF r.has THEN Append(st.sets, r.values) ELSE st.sets,
                       vals |-> IF r.has THEN Append(st.vals, r.val) ELSE st.vals,
                       dict |-> [st.dict EXCEPT ![k] = FieldRef(f)]])

\* fieldsclass(clazz): class Decorated(clazz), one Field per placeholder.
\* An exception leaves no Decorated class behind; the objects built before
\* it are unreachable.
fieldsclass(clazz) ==
    /\ clazz \in 1..Len(classes)
    /\ Len(classes) < MaxClasses
    /\ LET st == Materialize(clazz, 1,
                    [err |-> "none", fields |-> fields, sets |-> sets,
                     vals |-> vals, dict |-> [n \in Names |-> Absent]])
       IN IF st.err # "none"
          THEN /\ UNCHANGED <<classes, fields, sets, vals>>
               /\ last' = Call("fieldsclass", clazz, st.err, 0)
          ELSE /\ classes' = Append(classes, [base |-> DecoratedBase(clazz), dict |-> st.dict])
               /\ fields' = st.fields
               /\ sets' = st.sets
               /\ vals' = st.vals
               /\ last' = Call("fieldsclass", clazz, "ok", Len(classes) + 1)
    /\ UNCHANGED <<placeholders, updates>>

(* ------------------- updates attempted by client code ------------------ *)
\* setattr(clazz, n, member) on a declaration class after its definition
ClassSetAttr(c, n, member) ==
    /\ updates < MaxUpdates
    /\ c \in Decls
    /\ classes' = [classes EXCEPT ![c].dict[n] = member]
    /\ updates' = updates + 1
    /\ last' = Call("ClassSetAttr", 0, "ok", 0)
    /\ UNCHANGED <<placeholders, fields, sets, vals>>

\* placeholder.values.append(x): the declared list is an ordinary list
ListAppend(p, x) ==
    /\ updates < MaxUpdates
    /\ p \in 1..Len(placeholders)
    /\ placeholders[p].values.kind = "list"
    /\ Len(placeholders[p].values.items) < MaxLen
    /\ placeholders' = [placeholders EXCEPT ![p].values.items = Append(@, x)]
    /\ updates' = updates + 1
    /\ last' = Call("ListAppend", 0, "ok", 0)
    /\ UNCHANGED <<classes, fields, sets, vals>>

\* field.values.add(x): .values is bound to a built-in set
SetAdd(f, x) ==
    /\ updates < MaxUpdates
    /\ f \in 1..Len(fields)
    /\ fields[f].has
    /\ sets' = [sets EXCEPT ![fields[f].values] = @ \cup {x}]
    /\ updates' = updates + 1
    /\ last' = Call("SetAdd", 0, "ok", 0)
    /\ UNCHANGED <<classes, placeholders, fields, vals>>

\* setattr(field.val, name, value): Field.Val is a plain class
ValSetAttr(f, name, value) ==
    /\ updates < MaxUpdates
    /\ f \in 1..Len(fields)
    /\ fields[f].has
    /\ vals' = [vals EXCEPT ![fields[f].val] = (name :> value) @@ @]
    /\ updates' = updates + 1
    /\ last' = Call("ValSetAttr", 0, "ok", 0)
    /\ UNCHANGED <<classes, placeholders, fields, sets>>

Next ==
    \/ \E values \in DeclValues : _field(values)
    \/ \E body \in [Names -> Bindables] : ClassStatement(body)
    \/ \E clazz \in 1..Len(classes) : fieldsclass(clazz)
    \/ \E c \in Decls, n \in Names, member \in Rebindables : ClassSetAttr(c, n, member)
    \/ \E p \in 1..Len(placeholders), x \in Labels : ListAppend(p, x)
    \/ \E f \in 1..Len(fields), x \in Labels : SetAdd(f, x)
    \/ \E f \in 1..Len(fields), name \in Labels, value \in Labels : ValSetAttr(f, name, value)

Spec == Init /\ [][Next]_vars

(* --------------------- what client code can observe -------------------- *)
AttributeError == [kind |-> "AttributeError", id |-> 0]

\* getattr(field, attr): the instance __dict__ holds values and val only when
\* __new__ bound them; neither Field nor str defines them otherwise
GetAttr(f, attr) ==
    IF fields[f].has /\ attr = "values" THEN [kind |-> "set", id |-> fields[f].values]
    ELSE IF fields[f].has /\ attr = "val" THEN [kind |-> "Val", id |-> fields[f].val]
    ELSE AttributeError

\* Field inherits __eq__ and __hash__ from str: both read the str content only
StrHash(s) == Len(s) % 8
PyEq(f, s) == fields[f].str = s
PyHash(f) == StrHash(fields[f].str)

\* d[key] on a dict with plain str keys: the entry whose hash and content match
GetItem(d, hash, content) ==
    LET hits == {k \in DOMAIN d : StrHash(k) = hash /\ k = content}
    IN IF hits = {} THEN "KeyError" ELSE d[CHOOSE k \in hits : TRUE]

Response == [k \in Names \cup {"", "Stat"} |-> k]

Range(seq) == {seq[i] : i \in 1..Len(seq)}

\* everything reachable from a field: its content, its values, its accessor
FieldViewIn(fs, ss, vs, f) ==
    [str |-> fs[f].str, has |-> fs[f].has,
     values |-> IF fs[f].has THEN ss[fs[f].values] ELSE {},
     val |-> IF fs[f].has THEN vs[fs[f].val] ELSE EmptyDict]

FieldView(f) == FieldViewIn(fields, sets, vals, f)

\* what schema.<n> shows: the object found and, for a field, what it holds
ViewIn(cls, fs, ss, vs, c, n) ==
    LET m == LookupIn(cls, c, n)
    IN [member |-> m,
        field |-> IF m.kind = "field" THEN FieldViewIn(fs, ss, vs, m.id)
                  ELSE FieldViewIn(<<[str |-> "", has |-> FALSE, values |-> 0, val |-> 0]>>,
                                   ss, vs, 1)]

Transformed == last.op = "fieldsclass" /\ last.status = "ok"

(* ------------------------------- claims -------------------------------- *)

\* C1: every name a transformed class binds to a placeholder is bound, on the
\* schema, to a Field whose str content is that name: it equals the plain
\* string, has its hash and finds the same entry of a mapping; and every Field
\* a schema holds keeps that content in every later state.
C1_StringIdentity ==
    /\ Transformed =>
          \A n \in Names :
              IsPlaceholder(classes[last.target].dict[n]) =>
                  Lookup(last.ret, n).kind = "field"
    /\ \A s \in Schemas, n \in Names :
          classes[s].dict[n].kind = "field" =>
              LET f == Lookup(s, n).id
              IN /\ Lookup(s, n) = classes[s].dict[n]
                 /\ PyEq(f, n)
                 /\ PyHash(f) = StrHash(n)
                 /\ GetItem(Response, PyHash(f), fields[f].str) = Response[n]

C1_Witness ==
    /\ updates > 0
    /\ \E s \in Schemas : classes[s].dict["Status"].kind = "field"

\* C2: Field(obj, values) with a non-empty list of text labels: .values is the
\* set of the distinct labels, and .val has exactly those members, the member
\* named v holding v; ["a", "a", "b"] gives {"a", "b"} and members a and b.
C2_ValuesAndAccessor ==
    (/\ last.op = "Field"
     /\ last.arg.kind = "list"
     /\ Len(last.arg.items) > 0
     /\ \A i \in 1..Len(last.arg.items) : IsText(last.arg.items[i]))
    => /\ last.status = "ok"
       /\ GetAttr(last.ret, "values").kind = "set"
       /\ GetAttr(last.ret, "val").kind = "Val"
       /\ LET view == FieldView(last.ret)
              distinct == Range(last.arg.items)
          IN /\ view.values = distinct
             /\ DOMAIN view.val = distinct
             /\ \A v \in distinct : view.val[v] = v
             /\ last.arg.items = <<"a", "a", "b">> =>
                   /\ view.values = {"a", "b"}
                   /\ view.val = [v \in {"a", "b"} |-> v]

C2_Witness ==
    /\ last.op = "Field"
    /\ last.arg = ListValue(<<"a", "a", "b">>)
    /\ last.status = "ok"
    /\ Cardinality(DOMAIN FieldView(last.ret).val) = 2

\* C3: Field(obj, values) with values None or an empty list: the call succeeds
\* and reading .values or .val raises AttributeError.
C3_NoValuesNoAccessor ==
    (/\ last.op = "Field"
     /\ \/ last.arg = NoneValue
        \/ last.arg = ListValue(<<>>))
    => /\ last.status = "ok"
       /\ last.ret \in 1..Len(fields)
       /\ GetAttr(last.ret, "values") = AttributeError
       /\ GetAttr(last.ret, "val") = AttributeError

C3_Witness ==
    /\ last.op = "Field"
    /\ last.arg = ListValue(<<>>)
    /\ last.status = "ok"
    /\ GetAttr(last.ret, "values") = AttributeError

\* what Field(name, values) is to hold when it succeeds
Contract(f, name, values) ==
    LET view == FieldView(f)
        labelled == values.kind \in {"list", "str"} /\ Len(values.items) > 0
    IN /\ view.str = name
       /\ view.has = labelled
       /\ labelled =>
             /\ view.values = Range(values.items)
             /\ view.val = [v \in Range(values.items) |-> v]

\* C4: right after fieldsclass(clazz) succeeds, every name clazz binds to a
\* placeholder is found on the schema as a Field named like it, holding what
\* the construction contract gives for the values of that placeholder.
C4_PlaceholdersMaterialized ==
    Transformed =>
        \A n \in Names :
            LET v == classes[last.target].dict[n]
                m == Lookup(last.ret, n)
            IN IsPlaceholder(v) =>
                  /\ m.kind = "field"
                  /\ m.id \in 1..Len(fields)
                  /\ Contract(m.id, n, placeholders[v.id].values)

C4_Witness ==
    /\ Transformed
    /\ IsPlaceholder(classes[last.target].dict["Status"])
    /\ IsPlaceholder(classes[last.target].dict["Name"])
    /\ FieldView(Lookup(last.ret, "Status").id).has
    /\ ~FieldView(Lookup(last.ret, "Name").id).has

C6_DeclarationUpdateUnobservable ==
    [][last'.op \in {"ClassSetAttr", "ListAppend"} =>
          \A s \in Schemas, n \in Names :
              ViewIn(classes', fields', sets', vals', s, n)
                  = ViewIn(classes, fields, sets, vals, s, n)]_vars

\* the Fields the decoration of s created
Own(s) == {classes[s].dict[n].id : n \in {k \in Names : classes[s].dict[k].kind = "field"}}

\* C7: two schemas hold no Field in common, two Fields share neither the set
\* bound to .values nor the accessor bound to .val, and one update of a set
\* or an accessor changes what at most one Field shows.
C7_NoSharing ==
    [][/\ \A s1 \in Schemas, s2 \in Schemas :
             s1 # s2 => Own(s1)' \cap Own(s2)' = {}
       /\ \A f1 \in 1..Len(fields'), f2 \in 1..Len(fields') :
             (f1 # f2 /\ fields'[f1].has /\ fields'[f2].has) =>
                 /\ fields'[f1].values # fields'[f2].values
                 /\ fields'[f1].val # fields'[f2].val
       /\ \A f1 \in 1..Len(fields), f2 \in 1..Len(fields) :
             (/\ f1 # f2
              /\ FieldViewIn(fields', sets', vals', f1) # FieldView(f1))
             => FieldViewIn(fields', sets', vals', f2) = FieldView(f2)]_vars

C7_Witness ==
    /\ last.op \in {"SetAdd", "ValSetAttr"}
    /\ \E s1 \in Schemas, s2 \in Schemas :
          /\ s1 # s2
          /\ classes[s1].base # classes[s2].base
          /\ classes[classes[s1].base].dict["Status"] = classes[classes[s2].base].dict["Status"]
          /\ classes[s1].dict["Status"].kind = "field"
          /\ classes[s2].dict["Status"].kind = "field"
          /\ FieldView(classes[s1].dict["Status"].id).has
          /\ FieldView(classes[s1].dict["Status"].id) # FieldView(classes[s2].dict["Status"].id)

\* C8: for every Field with values, the members of its accessor are exactly
\* the elements of its values set, in every reachable state.
C8_AccessorIsValues ==
    \A f \in 1..Len(fields) :
        fields[f].has => DOMAIN vals[fields[f].val] = sets[fields[f].values]

\* a placeholder's values that is no list of text
Malformed(values) ==
    \/ values.kind \in {"str", "int"}
    \/ \E i \in 1..Len(values.items) : ~IsText(values.items[i])

\* C9: fieldsclass(clazz) raises, and yields no schema, whenever clazz binds a
\* name to a placeholder whose values is malformed.
C9_MalformedRaises ==
    (/\ last.op = "fieldsclass"
     /\ \E n \in Names :
           /\ IsPlaceholder(classes[last.target].dict[n])
           /\ Malformed(placeholders[classes[last.target].dict[n].id].values))
    => /\ last.status = "TypeError"
       /\ last.ret = 0

\* C10: fieldsclass applied to a schema allocates no Field, no set and no
\* accessor, and every name is found on the result as the identical object it
\* is found as on that schema.
C10_Reapplication ==
    [][(/\ last'.op = "fieldsclass"
        /\ last'.status = "ok"
        /\ last' # last
        /\ classes[last'.target].base # 0)
       => /\ fields' = fields
          /\ sets' = sets
          /\ vals' = vals
          /\ \A n \in Names :
                LookupIn(classes', last'.ret, n) = Lookup(last'.target, n)]_vars

C10_Witness ==
    /\ Transformed
    /\ classes[last.target].base # 0
    /\ Lookup(last.ret, "Status").kind = "field"
    /\ IsPlaceholder(classes[classes[last.target].base].dict["Status"])
====
